---- MODULE Spec2Model ----
(***************************************************************************)
(* Framez: the optimistic like / hide reconciliation.                      *)
(*                                                                         *)
(*   - the view-state store (src/src/store/settingsStore.ts): the arrays   *)
(*     likedPostIds and hiddenPostIds, currentUserId, and their setters;   *)
(*   - the hook usePostInteractions (src/src/hooks/useThemeColors.ts,      *)
(*     lines 20-93): toggleLike and hidePost, each an async function cut   *)
(*     at its await into the part that runs at the call and the part that  *)
(*     runs when the remote promise settles;                               *)
(*   - the Convex mutations of posts.ts (src/unnamed/part_018) that the    *)
(*     hook awaits, each an atomic transaction on the server tables;       *)
(*   - PostPreferencesHydrator (src/src/navigation/AppNavigator.tsx);      *)
(*   - the password field of the sign-up screens and getPasswordStrength   *)
(*     (src/src/utils/validation.ts);                                      *)
(*   - CurrentUserHydrator (src/unnamed/part_012) and mutation users.store *)
(*     (src/convex/users.ts).                                              *)
(***************************************************************************)
EXTENDS Integers, Sequences, FiniteSets, TLC

\* Slots for invocations of the hook whose remote call has not settled.
MaxInv == 2
\* Invocations the user has in flight at a time where the whole environment
\* (hydration, other sessions, deletions, sign-out) runs beside them.
MaxTaps == 1
\* Longest identifier array handed to setLikedPostIds / setHiddenPostIds.
MaxIds == 2

\* The password typed: any characters up to MaxPrefix, then the last one
\* repeated up to MaxLen characters.
MaxPrefix == 3
MaxLen == 11

\* Changes of the Clerk user object while CurrentUserHydrator is mounted.
MaxEdits == 1
\* storeUser calls of CurrentUserHydrator whose promise has not settled.
MaxCalls == 2

\* Post identifiers and user identifiers of the scenario.
Posts == {"p1", "p2"}
Viewer == "u1"
Users == {"u1", "u2"}
\* posts.authorId of each post (set at posts.create and never patched).
PostAuthor(p) == IF p = "p1" THEN "u1" ELSE "u2"

\* The empty string is JavaScript's falsy currentUserId; Undefined is an
\* absent optional field / an unresolved useQuery.
NoUser == ""
Undefined == "undefined"

\* The messages of the Error values thrown.
ErrSignInLike == "You need to be signed in to like posts."
ErrSignInHide == "You need to be signed in to hide posts."
ErrSelfHide == "You cannot hide your own post."
ErrNotFound == "Post not found"
ErrNotOwner == "You can only delete your own post."
ErrNetwork == "Network request failed"
NoError == ""

Slots == 1..MaxInv
IdArrays == UNION {[1..n -> Posts] : n \in 0..MaxIds}

VARIABLES
    currentUserId,   \* store: SettingsState.currentUserId
    likedPostIds,    \* store: SettingsState.likedPostIds
    hiddenPostIds,   \* store: SettingsState.hiddenPostIds
    hook,            \* the values usePostInteractions selected at its last render
    invs,            \* slot -> the invocation of toggleLike / hidePost awaiting
                     \* its remote call there
    settled,         \* the promise the last step settled, as its caller got it
    notified,        \* the last call of a store operation called the store's
                     \* listeners (its updater returned a new state object)
    prefsCurrent,    \* PostPreferencesHydrator's effect has run on the useQuery
                     \* result of the server tables as they are
    srvPosts,        \* server: ids of the documents of table posts
    srvLikeCount,    \* server: posts.likeCount
    srvPostLikes,    \* server: table postLikes, in creation order
    srvHiddenPosts,  \* server: table hiddenPosts, in creation order
    password,        \* sign-up screen: the state `password`, a string
    passwordStrength,\* sign-up screen: getPasswordStrength(password) of the
                     \* last render
    payload,         \* CurrentUserHydrator: the payload built from the Clerk
                     \* user, by the revision of the user's profile
    currentUser,     \* CurrentUserHydrator: the useQuery(getByClerkId) result
                     \* of the last render
    hasRequestedCreate, \* CurrentUserHydrator: hasRequestedCreate.current
    effectPending,   \* CurrentUserHydrator: a dependency of the effect changed
                     \* and the effect has not run since
    storeUserCalls,  \* the storeUser calls whose promise has not settled, in
                     \* call order
    usersDoc         \* server: the document of table users with the viewer's
                     \* clerkId, or NullDoc

storeVars == <<currentUserId, likedPostIds, hiddenPostIds>>
srvVars == <<srvPosts, srvLikeCount, srvPostLikes, srvHiddenPosts>>
\* The state of the post interactions, and that of the rest of the app.
postVars == <<currentUserId, likedPostIds, hiddenPostIds, hook, invs, settled,
              notified, prefsCurrent, srvPosts, srvLikeCount, srvPostLikes,
              srvHiddenPosts>>
formVars == <<password, passwordStrength>>
hydratorVars == <<payload, currentUser, hasRequestedCreate, effectPending,
                  storeUserCalls, usersDoc>>
appVars == <<formVars, hydratorVars>>
vars == <<postVars, appVars>>

----------------------------------------------------------------------------
(* Arrays *)

\* Array.prototype.includes
Includes(ids, x) == \E i \in 1..Len(ids) : ids[i] = x

\* ids.filter((id) => id !== x)
FilterOut(ids, x) == SelectSeq(ids, LAMBDA id : id # x)

\* Array.from(new Set(ids)): a Set keeps the first occurrence of each value,
\* in insertion order.
RECURSIVE ArrayFromSet(_)
ArrayFromSet(ids) ==
    IF ids = <<>> THEN <<>>
    ELSE <<Head(ids)>> \o ArrayFromSet(FilterOut(Tail(ids), Head(ids)))

----------------------------------------------------------------------------
(* The view-state store: settingsStore.ts *)

\* A variant of setLikedPostIds that stores the array as given.
setLikedPostIds_AsGiven(ids) == ids

\* setLikedPostIds: (ids) => set({ likedPostIds: Array.from(new Set(ids)) })
setLikedPostIds(ids) == ArrayFromSet(ids)

\* setHiddenPostIds: (ids) => set({ hiddenPostIds: Array.from(new Set(ids)) })
setHiddenPostIds(ids) == ArrayFromSet(ids)

\* A variant of applyLikeState that empties the array when it unlikes.
applyLikeState_ClearOnUnlike(liked_ids, postId, liked) ==
    LET hasLiked == Includes(liked_ids, postId) IN
    IF liked /\ hasLiked THEN liked_ids
    ELSE IF ~liked /\ ~hasLiked THEN liked_ids
    ELSE IF liked THEN Append(liked_ids, postId)
    ELSE <<>>

\* applyLikeState(postId, liked), as the new likedPostIds
applyLikeState(liked_ids, postId, liked) ==
    LET hasLiked == Includes(liked_ids, postId) IN
    IF liked /\ hasLiked THEN liked_ids
    ELSE IF ~liked /\ ~hasLiked THEN liked_ids
    ELSE IF liked THEN Append(liked_ids, postId)
    ELSE FilterOut(liked_ids, postId)

\* A variant of the store's toggleLike that leaves the array as it is (the
\* speculative write forgotten).
toggleLikeLocal_Skipped(liked_ids, postId) == liked_ids

\* A variant of the updater that always returns a new state object.
applyLikeStateNotifies_Always(liked_ids, postId, liked) == TRUE

\* applyLikeState's updater returns a new state object, so that set() calls the
\* store's listeners; it returns `state` itself, and set() calls no listener,
\* when the membership asked for is the one the array has.
applyLikeStateNotifies(liked_ids, postId, liked) ==
    LET hasLiked == Includes(liked_ids, postId) IN
    IF liked /\ hasLiked THEN FALSE
    ELSE IF ~liked /\ ~hasLiked THEN FALSE
    ELSE TRUE

\* the store's toggleLike(postId) (toggleLikeLocal in the hook)
toggleLikeLocal(liked_ids, postId) ==
    LET alreadyLiked == Includes(liked_ids, postId) IN
    IF alreadyLiked THEN FilterOut(liked_ids, postId)
    ELSE Append(liked_ids, postId)

\* the store's hidePost(postId) (hidePostLocal in the hook)
hidePostLocal(hidden_ids, postId) ==
    IF Includes(hidden_ids, postId) THEN hidden_ids
    ELSE Append(hidden_ids, postId)

\* hidePost's updater returns a new state object unless postId is hidden.
hidePostNotifies(hidden_ids, postId) ==
    IF Includes(hidden_ids, postId) THEN FALSE ELSE TRUE

\* unhidePost's updater returns a new state object unless postId is not hidden.
unhidePostNotifies(hidden_ids, postId) ==
    IF ~Includes(hidden_ids, postId) THEN FALSE ELSE TRUE

\* the store's unhidePost(postId) (unhidePostLocal in the hook)
unhidePostLocal(hidden_ids, postId) ==
    IF ~Includes(hidden_ids, postId) THEN hidden_ids
    ELSE FilterOut(hidden_ids, postId)

----------------------------------------------------------------------------
(* The server tables and mutations: convex/posts.ts *)

LikeRecord(p, u) == [postId |-> p, userId |-> u]

\* .withIndex("by_post_user", q => q.eq("postId", p).eq("userId", u))
ByPostUser(table, p, u) ==
    SelectSeq(table, LAMBDA r : r.postId = p /\ r.userId = u)

\* .withIndex("by_post", q => q.eq("postId", p)).collect()
ByPost(table, p) == SelectSeq(table, LAMBDA r : r.postId = p)

\* .withIndex("by_user", q => q.eq("userId", u)).collect()
ByUser(table, u) == SelectSeq(table, LAMBDA r : r.userId = u)

\* ctx.db.delete(existing._id) of the one record .unique() returned
DeleteRecord(table, p, u) ==
    SelectSeq(table, LAMBDA r : ~(r.postId = p /\ r.userId = u))

\* getUserPreferences({userId}): likes.map(like => like.postId), and the same
\* of hiddenPosts
getUserPreferences(u) ==
    LET likes == ByUser(srvPostLikes, u)
        hidden == ByUser(srvHiddenPosts, u)
    IN [likedPostIds |-> [i \in 1..Len(likes) |-> likes[i].postId],
        hiddenPostIds |-> [i \in 1..Len(hidden) |-> hidden[i].postId]]

\* A variant of mutation toggleLike that inserts without looking for a record.
toggleLikeMutation_AlwaysInsert(p, u) ==
    IF p \notin srvPosts
    THEN [error |-> ErrNotFound, postLikes |-> srvPostLikes,
          liked |-> FALSE, likeCount |-> 0]
    ELSE LET table == Append(srvPostLikes, LikeRecord(p, u))
             likes == ByPost(table, p)
         IN [error |-> NoError, postLikes |-> table,
             liked |-> TRUE, likeCount |-> Len(likes)]

\* A variant of mutation toggleLike that does not look the post up.
toggleLikeMutation_NoPostCheck(p, u) ==
    LET existingLike == ByPostUser(srvPostLikes, p, u) # <<>>
        table == IF existingLike
                 THEN DeleteRecord(srvPostLikes, p, u)
                 ELSE Append(srvPostLikes, LikeRecord(p, u))
        likes == ByPost(table, p)
    IN [error |-> NoError, postLikes |-> table,
        liked |-> ~existingLike, likeCount |-> Len(likes)]

\* A variant of mutation toggleLike that counts the post's likes before it
\* writes.
toggleLikeMutation_CountBefore(p, u) ==
    IF p \notin srvPosts
    THEN [error |-> ErrNotFound, postLikes |-> srvPostLikes,
          liked |-> FALSE, likeCount |-> 0]
    ELSE LET existingLike == ByPostUser(srvPostLikes, p, u) # <<>>
             table == IF existingLike
                      THEN DeleteRecord(srvPostLikes, p, u)
                      ELSE Append(srvPostLikes, LikeRecord(p, u))
             likes == ByPost(srvPostLikes, p)
         IN [error |-> NoError, postLikes |-> table,
             liked |-> ~existingLike, likeCount |-> Len(likes)]

\* The outcome of mutation toggleLike({postId, userId}) on the tables as they
\* are: the error thrown (nothing is written), or the new postLikes table and
\* the value returned.
toggleLikeMutation(p, u) ==
    IF p \notin srvPosts
    THEN [error |-> ErrNotFound, postLikes |-> srvPostLikes,
          liked |-> FALSE, likeCount |-> 0]
    ELSE LET existingLike == ByPostUser(srvPostLikes, p, u) # <<>>
             table == IF existingLike
                      THEN DeleteRecord(srvPostLikes, p, u)
                      ELSE Append(srvPostLikes, LikeRecord(p, u))
             likes == ByPost(table, p)
         IN [error |-> NoError, postLikes |-> table,
             liked |-> ~existingLike, likeCount |-> Len(likes)]

\* A variant of mutation deletePost that leaves the post's hidden entries.
deletePostMutation_KeepHidden(id, requesterId) ==
    IF id \notin srvPosts
    THEN [error |-> ErrNotFound, posts |-> srvPosts,
          postLikes |-> srvPostLikes, hiddenPosts |-> srvHiddenPosts]
    ELSE IF PostAuthor(id) # requesterId
    THEN [error |-> ErrNotOwner, posts |-> srvPosts,
          postLikes |-> srvPostLikes, hiddenPosts |-> srvHiddenPosts]
    ELSE [error |-> NoError,
          posts |-> srvPosts \ {id},
          postLikes |-> SelectSeq(srvPostLikes, LAMBDA r : r.postId # id),
          hiddenPosts |-> srvHiddenPosts]

\* The outcome of mutation deletePost({id, requesterId}): the error thrown, if
\* any, and the tables after it.
deletePostMutation(id, requesterId) ==
    IF id \notin srvPosts
    THEN [error |-> ErrNotFound, posts |-> srvPosts,
          postLikes |-> srvPostLikes, hiddenPosts |-> srvHiddenPosts]
    ELSE IF PostAuthor(id) # requesterId
    THEN [error |-> ErrNotOwner, posts |-> srvPosts,
          postLikes |-> srvPostLikes, hiddenPosts |-> srvHiddenPosts]
    ELSE [error |-> NoError,
          posts |-> srvPosts \ {id},
          postLikes |-> SelectSeq(srvPostLikes, LAMBDA r : r.postId # id),
          hiddenPosts |-> SelectSeq(srvHiddenPosts, LAMBDA r : r.postId # id)]

\* A variant of mutation hidePost that answers the author's call with the error
\* of a missing post.
hidePostMutation_OwnPostAsNotFound(p, u) ==
    IF p \notin srvPosts \/ PostAuthor(p) = u
    THEN [error |-> ErrNotFound, hiddenPosts |-> srvHiddenPosts, hidden |-> FALSE]
    ELSE LET existingEntry == ByPostUser(srvHiddenPosts, p, u) # <<>> IN
         IF existingEntry
         THEN [error |-> NoError, hiddenPosts |-> srvHiddenPosts, hidden |-> TRUE]
         ELSE [error |-> NoError,
               hiddenPosts |-> Append(srvHiddenPosts, LikeRecord(p, u)),
               hidden |-> TRUE]

\* A variant of mutation hidePost that inserts without looking for an entry.
hidePostMutation_AlwaysInsert(p, u) ==
    IF p \notin srvPosts
    THEN [error |-> ErrNotFound, hiddenPosts |-> srvHiddenPosts, hidden |-> FALSE]
    ELSE IF PostAuthor(p) = u
    THEN [error |-> ErrSelfHide, hiddenPosts |-> srvHiddenPosts, hidden |-> FALSE]
    ELSE [error |-> NoError,
          hiddenPosts |-> Append(srvHiddenPosts, LikeRecord(p, u)),
          hidden |-> TRUE]

\* A variant of mutation hidePost without the author check.
hidePostMutation_NoAuthorCheck(p, u) ==
    IF p \notin srvPosts
    THEN [error |-> ErrNotFound, hiddenPosts |-> srvHiddenPosts, hidden |-> FALSE]
    ELSE LET existingEntry == ByPostUser(srvHiddenPosts, p, u) # <<>> IN
         IF existingEntry
         THEN [error |-> NoError, hiddenPosts |-> srvHiddenPosts, hidden |-> TRUE]
         ELSE [error |-> NoError,
               hiddenPosts |-> Append(srvHiddenPosts, LikeRecord(p, u)),
               hidden |-> TRUE]

\* The outcome of mutation hidePost({postId, userId}).
hidePostMutation(p, u) ==
    IF p \notin srvPosts
    THEN [error |-> ErrNotFound, hiddenPosts |-> srvHiddenPosts, hidden |-> FALSE]
    ELSE IF PostAuthor(p) = u
    THEN [error |-> ErrSelfHide, hiddenPosts |-> srvHiddenPosts, hidden |-> FALSE]
    ELSE LET existingEntry == ByPostUser(srvHiddenPosts, p, u) # <<>> IN
         IF existingEntry
         THEN [error |-> NoError, hiddenPosts |-> srvHiddenPosts, hidden |-> TRUE]
         ELSE [error |-> NoError,
               hiddenPosts |-> Append(srvHiddenPosts, LikeRecord(p, u)),
               hidden |-> TRUE]

\* The outcome of mutation unhidePost({postId, userId}).
unhidePostMutation(p, u) ==
    LET existingEntry == ByPostUser(srvHiddenPosts, p, u) # <<>> IN
    [error |-> NoError,
     hiddenPosts |-> IF existingEntry
                     THEN DeleteRecord(srvHiddenPosts, p, u)
                     ELSE srvHiddenPosts,
     hidden |-> FALSE]

----------------------------------------------------------------------------
(* Invocations of the hook *)

\* An empty slot. An invocation's record holds its arguments (postId and, for
\* hidePost, authorId), the userId it sent, its snapshot `was` (wasLiked or
\* wasHidden), the state of its remote call and the response. For the properties it
\* also holds `had`, the subject's membership in the store's array when the
\* invocation started, and `before`, that array.
Idle ==
    [kind |-> "idle", postId |-> "", authorId |-> "", userId |-> "",
     was |-> FALSE, had |-> FALSE,
     status |-> "idle", respError |-> NoError, result |-> FALSE, likeCount |-> 0,
     before |-> <<>>, interleaved |-> "none"]

\* No promise settled in the step.
NoSettlement ==
    [status |-> "none", issued |-> FALSE, thrown |-> NoError, call |-> Idle]

\* The promise of invocation r resolved: its caller has r.result (liked or
\* hidden) and r.likeCount.
Resolved(r) ==
    [status |-> "resolved", issued |-> TRUE, thrown |-> NoError, call |-> r]

\* The promise of invocation r rejected with error e, after its remote call
\* (issued) or before any.
Rejected(r, e, issued) ==
    [status |-> "rejected", issued |-> issued, thrown |-> e, call |-> r]

\* The lowest empty slot.
FreeSlot == CHOOSE i \in Slots : invs[i] = Idle /\ \A j \in 1..(i - 1) : invs[j] # Idle

HasFreeSlot == \E i \in Slots : invs[i] = Idle

\* The number of invocations in flight.
Busy == Cardinality({i \in Slots : invs[i] # Idle})

\* The record of an invocation as it starts.
Started(kind, postId, authorId, ids) ==
    [Idle EXCEPT !.kind = kind, !.postId = postId, !.authorId = authorId,
                 !.userId = hook.currentUserId, !.status = "started",
                 !.had = Includes(ids, postId), !.before = ids]

\* Bookkeeping for the properties: every invocation in flight other than `self`
\* notes that another store operation of `kind` on the subjects `touched` ran
\* meanwhile ("same": on its own subject and membership set). `before`, the
\* array the invocation found, is kept only while it has run alone.
Interleave(f, self, kind, touched) ==
    [i \in Slots |->
        IF i = self \/ f[i] = Idle THEN f[i]
        ELSE IF f[i].kind = kind /\ f[i].postId \in touched
        THEN [f[i] EXCEPT !.interleaved = "same", !.before = <<>>]
        ELSE IF f[i].interleaved = "none"
        THEN [f[i] EXCEPT !.interleaved = "other", !.before = <<>>]
        ELSE f[i]]

\* A variant in which toggleLike is not made anew when likedPostIds changes
\* (the array left out of the callback's dependencies): it keeps the array of
\* the first render.
Rerender_StaleLikes ==
    hook' = [currentUserId |-> currentUserId',
             likedPostIds |-> hook.likedPostIds,
             hiddenPostIds |-> hiddenPostIds']

\* usePostInteractions runs again (lines 21-23) and its callbacks are made
\* anew over the store's values. A zustand selector is a synchronous external
\* store subscription: React renders the subscribed component in the task that
\* changed the store, before the next user event, timer or network callback
\* runs, so the re-render is the end of every step that writes the store.
Rerender ==
    hook' = [currentUserId |-> currentUserId',
             likedPostIds |-> likedPostIds',
             hiddenPostIds |-> hiddenPostIds']

----------------------------------------------------------------------------
(* utils/validation.ts *)

\* The characters typed, one for each class the regular expressions of
\* getPasswordStrength tell apart and one ("_") that none of them matches.
Chars == {"A", "a", "1", "!", "_"}
UpperCase == {"A"}
LowerCase == {"a"}
Digits == {"1"}
SpecialChars == {"!"}

\* regex.test(password) for a character class: some character is of the class.
Test(class, pwd) == \E i \in 1..Len(pwd) : pwd[i] \in class

MsgTooShort == "Password must be at least 8 characters"
MsgStrong == "Strong password"
MsgMedium == "Medium password - consider adding special characters"
MsgWeak == "Weak password - use uppercase, lowercase, numbers, and special characters"

\* A variant of getPasswordStrength that asks no length of a strong password
\* beyond the eight characters.
getPasswordStrength_StrongAtEight(pwd) ==
    IF Len(pwd) < 8
    THEN [strength |-> "weak", message |-> MsgTooShort]
    ELSE LET criteria == <<Test(UpperCase, pwd), Test(LowerCase, pwd),
                           Test(Digits, pwd), Test(SpecialChars, pwd)>>
             criteriaCount == Len(SelectSeq(criteria, LAMBDA b : b))
         IN IF criteriaCount >= 3
            THEN [strength |-> "strong", message |-> MsgStrong]
            ELSE IF criteriaCount >= 2 /\ Len(pwd) >= 8
            THEN [strength |-> "medium", message |-> MsgMedium]
            ELSE [strength |-> "weak", message |-> MsgWeak]

\* getPasswordStrength(password).
getPasswordStrength(pwd) ==
    IF Len(pwd) < 8
    THEN [strength |-> "weak", message |-> MsgTooShort]
    ELSE LET criteria == <<Test(UpperCase, pwd), Test(LowerCase, pwd),
                           Test(Digits, pwd), Test(SpecialChars, pwd)>>
             criteriaCount == Len(SelectSeq(criteria, LAMBDA b : b))
         IN IF criteriaCount >= 3 /\ Len(pwd) >= 10
            THEN [strength |-> "strong", message |-> MsgStrong]
            ELSE IF criteriaCount >= 2 /\ Len(pwd) >= 8
            THEN [strength |-> "medium", message |-> MsgMedium]
            ELSE [strength |-> "weak", message |-> MsgWeak]

\* The password field's onChangeText: setPassword with one more character
\* typed, and the render that follows computes the strength shown.
ChangePassword(c) ==
    /\ \/ Len(password) < MaxPrefix
       \/ /\ Len(password) > 0
          /\ Len(password) < MaxLen
          /\ c = password[Len(password)]
    /\ password' = Append(password, c)
    /\ passwordStrength' = getPasswordStrength(password')
    /\ UNCHANGED <<postVars, hydratorVars>>

\* The field cleared.
ClearPassword ==
    /\ password # <<>>
    /\ password' = <<>>
    /\ passwordStrength' = getPasswordStrength(password')
    /\ UNCHANGED <<postVars, hydratorVars>>

----------------------------------------------------------------------------
(* providers/CurrentUserHydrator.tsx, convex/users.ts *)

\* The results of useQuery(getByClerkId): undefined while the query loads,
\* null when there is no document, the document otherwise.
Loading == [found |-> "undefined", revision |-> 0]
NullDoc == [found |-> "null", revision |-> 0]
Doc(revision) == [found |-> "doc", revision |-> revision]

\* hasProfileDifferences(doc, payload): the document holds another revision of
\* the profile than the payload.
hasProfileDifferences(doc, pl) == doc.revision # pl

\* A storeUser call as it is issued: why the effect issued it and the payload
\* it carries.
StoreUserCall(reason, pl) == [reason |-> reason, payload |-> pl, status |-> "pending"]

\* The storeUser calls in flight that were issued to create the profile.
CreatesInFlight == SelectSeq(storeUserCalls, LAMBDA c : c.reason = "create")

\* The sequence without its k-th element.
RemoveAt(seq, k) == [j \in 1..(Len(seq) - 1) |-> IF j < k THEN seq[j] ELSE seq[j + 1]]

\* setCurrentUserProfile({..., clerkId}) with the viewer's clerkId, as the
\* effect and the create's then-callback call it.
SetProfileOfViewer ==
    /\ currentUserId' = Viewer
    /\ prefsCurrent' = IF currentUserId' # currentUserId THEN FALSE ELSE prefsCurrent
    /\ settled' = NoSettlement
    /\ UNCHANGED <<likedPostIds, hiddenPostIds, invs, srvVars>>
    /\ notified' = TRUE
    /\ Rerender

\* A variant of the effect that issues the create whatever
\* hasRequestedCreate.current holds.
CurrentUserHydratorEffect_NoGuard ==
    /\ effectPending
    /\ effectPending' = FALSE
    /\ IF currentUser = Loading
       THEN UNCHANGED <<postVars, hasRequestedCreate, storeUserCalls>>
       ELSE IF currentUser = NullDoc
       THEN /\ Len(storeUserCalls) < MaxCalls
            /\ hasRequestedCreate' = TRUE
            /\ storeUserCalls' = Append(storeUserCalls, StoreUserCall("create", payload))
            /\ UNCHANGED postVars
       ELSE /\ hasRequestedCreate' = FALSE
            /\ IF hasProfileDifferences(currentUser, payload)
               THEN /\ Len(storeUserCalls) < MaxCalls
                    /\ storeUserCalls' = Append(storeUserCalls,
                                                StoreUserCall("update", payload))
               ELSE UNCHANGED storeUserCalls
            /\ SetProfileOfViewer
    /\ UNCHANGED <<formVars, payload, currentUser, usersDoc>>

\* The effect of CurrentUserHydrator (lines 97-131), run after a render in
\* which currentUser or payload changed. The payload is never null: the
\* component is mounted inside <SignedIn>.
CurrentUserHydratorEffect ==
    /\ effectPending
    /\ effectPending' = FALSE
    /\ IF currentUser = Loading
       THEN UNCHANGED <<postVars, hasRequestedCreate, storeUserCalls>>
       ELSE IF currentUser = NullDoc
       THEN IF hasRequestedCreate
            THEN UNCHANGED <<postVars, hasRequestedCreate, storeUserCalls>>
            ELSE /\ Len(storeUserCalls) < MaxCalls
                 /\ hasRequestedCreate' = TRUE
                 /\ storeUserCalls' = Append(storeUserCalls,
                                             StoreUserCall("create", payload))
                 /\ UNCHANGED postVars
       ELSE /\ hasRequestedCreate' = FALSE
            /\ IF hasProfileDifferences(currentUser, payload)
               THEN /\ Len(storeUserCalls) < MaxCalls
                    /\ storeUserCalls' = Append(storeUserCalls,
                                                StoreUserCall("update", payload))
               ELSE UNCHANGED storeUserCalls
            /\ SetProfileOfViewer
    /\ UNCHANGED <<formVars, payload, currentUser, usersDoc>>

\* useUser() returns a new user object (the profile edited in Clerk): useMemo
\* builds a new payload and the effect is due.
ClerkUserChanges ==
    /\ payload < MaxEdits
    /\ payload' = payload + 1
    /\ effectPending' = TRUE
    /\ UNCHANGED <<postVars, formVars, currentUser, hasRequestedCreate,
                   storeUserCalls, usersDoc>>

\* useQuery(getByClerkId) delivers the server's current result.
CurrentUserQueryUpdates ==
    /\ currentUser # usersDoc
    /\ currentUser' = usersDoc
    /\ effectPending' = TRUE
    /\ UNCHANGED <<postVars, formVars, payload, hasRequestedCreate,
                   storeUserCalls, usersDoc>>

\* The server runs mutation users.store for the k-th call in flight: it
\* patches the document of the clerkId if there is one and inserts one
\* otherwise; either way the document holds the payload's profile afterwards.
StoreUserMutation(k) ==
    /\ k \in 1..Len(storeUserCalls)
    /\ storeUserCalls[k].status = "pending"
    /\ usersDoc' = Doc(storeUserCalls[k].payload)
    /\ storeUserCalls' = [storeUserCalls EXCEPT ![k].status = "fulfilled"]
    /\ UNCHANGED <<postVars, formVars, payload, currentUser, hasRequestedCreate,
                   effectPending>>

\* The k-th call's request never arrives: its promise will reject.
StoreUserFails(k) ==
    /\ k \in 1..Len(storeUserCalls)
    /\ storeUserCalls[k].status = "pending"
    /\ storeUserCalls' = [storeUserCalls EXCEPT ![k].status = "rejected"]
    /\ UNCHANGED <<postVars, formVars, payload, currentUser, hasRequestedCreate,
                   effectPending, usersDoc>>

\* The then-callback of a create (lines 113-115): setCurrentUserProfile.
StoreUserThen(k) ==
    /\ k \in 1..Len(storeUserCalls)
    /\ storeUserCalls[k].reason = "create"
    /\ storeUserCalls[k].status = "fulfilled"
    /\ storeUserCalls' = RemoveAt(storeUserCalls, k)
    /\ SetProfileOfViewer
    /\ UNCHANGED <<formVars, payload, currentUser, hasRequestedCreate,
                   effectPending, usersDoc>>

\* The catch-callback of a create (lines 116-119): the guard is released.
StoreUserCatch(k) ==
    /\ k \in 1..Len(storeUserCalls)
    /\ storeUserCalls[k].reason = "create"
    /\ storeUserCalls[k].status = "rejected"
    /\ storeUserCalls' = RemoveAt(storeUserCalls, k)
    /\ hasRequestedCreate' = FALSE
    /\ UNCHANGED <<postVars, formVars, payload, currentUser, effectPending, usersDoc>>

\* The promise of a `void storeUser(payload)` of line 126 settles; nothing
\* awaits it.
StoreUserUpdateSettles(k) ==
    /\ k \in 1..Len(storeUserCalls)
    /\ storeUserCalls[k].reason = "update"
    /\ storeUserCalls[k].status # "pending"
    /\ storeUserCalls' = RemoveAt(storeUserCalls, k)
    /\ UNCHANGED <<postVars, formVars, payload, currentUser, hasRequestedCreate,
                   effectPending, usersDoc>>

\* Another device signed in to the same account runs users.store with the
\* profile of some revision.
OtherDeviceStoresUser(pl) ==
    /\ usersDoc # Doc(pl)
    /\ usersDoc' = Doc(pl)
    /\ UNCHANGED <<postVars, formVars, payload, currentUser, hasRequestedCreate,
                   effectPending, storeUserCalls>>

----------------------------------------------------------------------------

Init ==
    /\ password = <<>>
    /\ passwordStrength = getPasswordStrength(<<>>)
    /\ payload = 0
    /\ currentUser = Loading
    /\ hasRequestedCreate = FALSE
    /\ effectPending = TRUE
    /\ storeUserCalls = <<>>
    /\ usersDoc = NullDoc
    /\ currentUserId = Viewer
    /\ likedPostIds = <<>>
    /\ hiddenPostIds = <<>>
    /\ hook = [currentUserId |-> Viewer, likedPostIds |-> <<>>, hiddenPostIds |-> <<>>]
    /\ invs = [i \in Slots |-> Idle]
    /\ settled = NoSettlement
    /\ notified = FALSE
    /\ prefsCurrent = FALSE
    /\ srvPosts = Posts
    /\ srvLikeCount = [p \in Posts |-> 0]
    /\ srvPostLikes = <<>>
    /\ srvHiddenPosts = <<>>

----------------------------------------------------------------------------
(* usePostInteractions.toggleLike *)

\* A variant of toggleLike that drops the invocations still awaiting a call for
\* the same post when it starts (a later action cancelling an earlier one).
ToggleLike_Supersede(postId) ==
    /\ HasFreeSlot
    /\ IF hook.currentUserId = NoUser
       THEN /\ settled' = Rejected(Started("like", postId, "", likedPostIds),
                                   ErrSignInLike, FALSE)
            /\ UNCHANGED <<likedPostIds, invs>>
       ELSE /\ likedPostIds' = toggleLikeLocal(likedPostIds, postId)
            /\ invs' = [i \in Slots |->
                           IF i = FreeSlot
                           THEN [Started("like", postId, "", likedPostIds)
                                    EXCEPT !.was = Includes(hook.likedPostIds, postId),
                                           !.status = "pending"]
                           ELSE IF invs[i].kind = "like" /\ invs[i].postId = postId
                           THEN Idle
                           ELSE invs[i]]
            /\ settled' = NoSettlement
    /\ UNCHANGED <<currentUserId, hiddenPostIds, prefsCurrent, srvVars>>
    /\ notified' = (IF hook.currentUserId = NoUser THEN notified ELSE TRUE)
    /\ Rerender
    /\ UNCHANGED appVars

\* A variant of toggleLike that toggles the store before its sign-in check.
ToggleLike_ToggleFirst(postId) ==
    /\ HasFreeSlot
    /\ likedPostIds' = toggleLikeLocal(likedPostIds, postId)
    /\ IF hook.currentUserId = NoUser
       THEN /\ settled' = Rejected(Started("like", postId, "", likedPostIds),
                                   ErrSignInLike, FALSE)
            /\ UNCHANGED invs
       ELSE /\ invs' = Interleave(
                           [invs EXCEPT ![FreeSlot] =
                                [Started("like", postId, "", likedPostIds)
                                    EXCEPT !.was = Includes(hook.likedPostIds, postId),
                                           !.status = "pending"]],
                           FreeSlot, "like", {postId})
            /\ settled' = NoSettlement
    /\ UNCHANGED <<currentUserId, hiddenPostIds, prefsCurrent, srvVars>>
    /\ notified' = TRUE
    /\ Rerender
    /\ UNCHANGED appVars

\* toggleLike(postId) up to its await (lines 33-45): the sign-in check, the
\* snapshot wasLiked, the store's toggle, and the mutation call issued.
ToggleLike(postId) ==
    /\ HasFreeSlot
    /\ IF hook.currentUserId = NoUser
       THEN /\ settled' = Rejected(Started("like", postId, "", likedPostIds),
                                   ErrSignInLike, FALSE)
            /\ UNCHANGED <<likedPostIds, invs>>
       ELSE LET wasLiked == Includes(hook.likedPostIds, postId) IN
            /\ likedPostIds' = toggleLikeLocal(likedPostIds, postId)
            /\ invs' = Interleave(
                           [invs EXCEPT ![FreeSlot] =
                                [Started("like", postId, "", likedPostIds)
                                    EXCEPT !.was = wasLiked, !.status = "pending"]],
                           FreeSlot, "like", {postId})
            /\ settled' = NoSettlement
    /\ UNCHANGED <<currentUserId, hiddenPostIds, prefsCurrent, srvVars>>
    /\ notified' = (IF hook.currentUserId = NoUser THEN notified ELSE TRUE)
    /\ Rerender
    /\ UNCHANGED appVars

\* The server runs mutation toggleLike for the call of slot i (one transaction)
\* and its response, a value or an error, is on its way back. The viewer's
\* preferences query has a new result when a record was written.
RemoteToggleLike(i) ==
    /\ invs[i].kind = "like"
    /\ invs[i].status = "pending"
    /\ LET out == toggleLikeMutation(invs[i].postId, invs[i].userId) IN
       /\ srvPostLikes' = out.postLikes
       /\ srvLikeCount' = IF out.error = NoError
                          THEN [srvLikeCount EXCEPT ![invs[i].postId] = out.likeCount]
                          ELSE srvLikeCount
       /\ prefsCurrent' = IF out.error = NoError THEN FALSE ELSE prefsCurrent
       /\ invs' = [invs EXCEPT ![i].status = "responded",
                               ![i].respError = out.error,
                               ![i].result = out.liked,
                               ![i].likeCount = out.likeCount]
    /\ settled' = NoSettlement
    /\ UNCHANGED <<storeVars, hook, srvPosts, srvHiddenPosts>>
    /\ UNCHANGED notified
    /\ UNCHANGED appVars

\* A variant of the resolved branch that keeps the speculative array and does
\* not apply result.liked.
ToggleLikeResolve_KeepLocal(i) ==
    /\ invs[i].kind = "like"
    /\ invs[i].status = "responded"
    /\ invs[i].respError = NoError
    /\ likedPostIds' = likedPostIds
    /\ settled' = Resolved(invs[i])
    /\ invs' = Interleave([invs EXCEPT ![i] = Idle], i, "like", {invs[i].postId})
    /\ UNCHANGED <<currentUserId, hiddenPostIds, prefsCurrent, srvVars>>
    /\ UNCHANGED notified
    /\ Rerender
    /\ UNCHANGED appVars

\* toggleLike after its await resolved (lines 46-47).
ToggleLikeResolve(i) ==
    /\ invs[i].kind = "like"
    /\ invs[i].status = "responded"
    /\ invs[i].respError = NoError
    /\ likedPostIds' = applyLikeState(likedPostIds, invs[i].postId, invs[i].result)
    /\ settled' = Resolved(invs[i])
    /\ invs' = Interleave([invs EXCEPT ![i] = Idle], i, "like", {invs[i].postId})
    /\ UNCHANGED <<currentUserId, hiddenPostIds, prefsCurrent, srvVars>>
    /\ notified' = applyLikeStateNotifies(likedPostIds, invs[i].postId, invs[i].result)
    /\ Rerender
    /\ UNCHANGED appVars

\* A variant of the catch branch that rethrows without restoring wasLiked.
ToggleLikeReject_NoRollback(i) ==
    /\ invs[i].kind = "like"
    /\ invs[i].status = "responded"
    /\ invs[i].respError # NoError
    /\ likedPostIds' = likedPostIds
    /\ settled' = Rejected(invs[i], invs[i].respError, TRUE)
    /\ invs' = Interleave([invs EXCEPT ![i] = Idle], i, "like", {invs[i].postId})
    /\ UNCHANGED <<currentUserId, hiddenPostIds, prefsCurrent, srvVars>>
    /\ UNCHANGED notified
    /\ Rerender
    /\ UNCHANGED appVars

\* A variant of the catch branch that always removes the like.
ToggleLikeReject_Unlike(i) ==
    /\ invs[i].kind = "like"
    /\ invs[i].status = "responded"
    /\ invs[i].respError # NoError
    /\ likedPostIds' = applyLikeState(likedPostIds, invs[i].postId, FALSE)
    /\ settled' = Rejected(invs[i], invs[i].respError, TRUE)
    /\ invs' = Interleave([invs EXCEPT ![i] = Idle], i, "like", {invs[i].postId})
    /\ UNCHANGED <<currentUserId, hiddenPostIds, prefsCurrent, srvVars>>
    /\ notified' = applyLikeStateNotifies(likedPostIds, invs[i].postId, FALSE)
    /\ Rerender
    /\ UNCHANGED appVars

\* toggleLike after its await rejected (lines 48-51).
ToggleLikeReject(i) ==
    /\ invs[i].kind = "like"
    /\ invs[i].status = "responded"
    /\ invs[i].respError # NoError
    /\ likedPostIds' = applyLikeState(likedPostIds, invs[i].postId, invs[i].was)
    /\ settled' = Rejected(invs[i], invs[i].respError, TRUE)
    /\ invs' = Interleave([invs EXCEPT ![i] = Idle], i, "like", {invs[i].postId})
    /\ UNCHANGED <<currentUserId, hiddenPostIds, prefsCurrent, srvVars>>
    /\ notified' = applyLikeStateNotifies(likedPostIds, invs[i].postId, invs[i].was)
    /\ Rerender
    /\ UNCHANGED appVars

----------------------------------------------------------------------------
(* usePostInteractions.hidePost *)

\* A variant of hidePost that writes nothing to the store before its await.
HidePost_NoSpeculation(postId, postAuthorId) ==
    /\ HasFreeSlot
    /\ IF hook.currentUserId = NoUser
       THEN /\ settled' = Rejected(Started("hide", postId, postAuthorId, hiddenPostIds),
                                   ErrSignInHide, FALSE)
            /\ UNCHANGED <<hiddenPostIds, invs>>
       ELSE IF hook.currentUserId = postAuthorId
       THEN /\ settled' = Rejected(Started("hide", postId, postAuthorId, hiddenPostIds),
                                   ErrSelfHide, FALSE)
            /\ UNCHANGED <<hiddenPostIds, invs>>
       ELSE /\ hiddenPostIds' = hiddenPostIds
            /\ invs' = Interleave(
                           [invs EXCEPT ![FreeSlot] =
                                [Started("hide", postId, postAuthorId, hiddenPostIds)
                                    EXCEPT !.was = Includes(hook.hiddenPostIds, postId),
                                           !.status = "pending"]],
                           FreeSlot, "hide", {postId})
            /\ settled' = NoSettlement
    /\ UNCHANGED <<currentUserId, likedPostIds, prefsCurrent, srvVars, notified>>
    /\ Rerender
    /\ UNCHANGED appVars

\* A variant of hidePost without the own-post check (left to the server).
HidePost_NoSelfCheck(postId, postAuthorId) ==
    /\ HasFreeSlot
    /\ IF hook.currentUserId = NoUser
       THEN /\ settled' = Rejected(Started("hide", postId, postAuthorId, hiddenPostIds),
                                   ErrSignInHide, FALSE)
            /\ UNCHANGED <<hiddenPostIds, invs>>
       ELSE LET wasHidden == Includes(hook.hiddenPostIds, postId) IN
            /\ hiddenPostIds' = IF ~wasHidden
                                THEN hidePostLocal(hiddenPostIds, postId)
                                ELSE hiddenPostIds
            /\ invs' = Interleave(
                           [invs EXCEPT ![FreeSlot] =
                                [Started("hide", postId, postAuthorId, hiddenPostIds)
                                    EXCEPT !.was = wasHidden, !.status = "pending"]],
                           FreeSlot, "hide", {postId})
            /\ settled' = NoSettlement
    /\ UNCHANGED <<currentUserId, likedPostIds, prefsCurrent, srvVars>>
    /\ notified' = (IF hiddenPostIds' # hiddenPostIds THEN TRUE ELSE notified)
    /\ Rerender
    /\ UNCHANGED appVars

\* A variant of hidePost without the sign-in check.
HidePost_NoSignInCheck(postId, postAuthorId) ==
    /\ HasFreeSlot
    /\ IF hook.currentUserId = postAuthorId
       THEN /\ settled' = Rejected(Started("hide", postId, postAuthorId, hiddenPostIds),
                                   ErrSelfHide, FALSE)
            /\ UNCHANGED <<hiddenPostIds, invs>>
       ELSE LET wasHidden == Includes(hook.hiddenPostIds, postId) IN
            /\ hiddenPostIds' = IF ~wasHidden
                                THEN hidePostLocal(hiddenPostIds, postId)
                                ELSE hiddenPostIds
            /\ invs' = Interleave(
                           [invs EXCEPT ![FreeSlot] =
                                [Started("hide", postId, postAuthorId, hiddenPostIds)
                                    EXCEPT !.was = wasHidden, !.status = "pending"]],
                           FreeSlot, "hide", {postId})
            /\ settled' = NoSettlement
    /\ UNCHANGED <<currentUserId, likedPostIds, prefsCurrent, srvVars>>
    /\ notified' = (IF hiddenPostIds' # hiddenPostIds THEN TRUE ELSE notified)
    /\ Rerender
    /\ UNCHANGED appVars

\* hidePost(postId, postAuthorId) up to its await (lines 57-75).
HidePost(postId, postAuthorId) ==
    /\ HasFreeSlot
    /\ IF hook.currentUserId = NoUser
       THEN /\ settled' = Rejected(Started("hide", postId, postAuthorId, hiddenPostIds),
                                   ErrSignInHide, FALSE)
            /\ UNCHANGED <<hiddenPostIds, invs>>
       ELSE IF hook.currentUserId = postAuthorId
       THEN /\ settled' = Rejected(Started("hide", postId, postAuthorId, hiddenPostIds),
                                   ErrSelfHide, FALSE)
            /\ UNCHANGED <<hiddenPostIds, invs>>
       ELSE LET wasHidden == Includes(hook.hiddenPostIds, postId) IN
            /\ hiddenPostIds' = IF ~wasHidden
                                THEN hidePostLocal(hiddenPostIds, postId)
                                ELSE hiddenPostIds
            /\ invs' = Interleave(
                           [invs EXCEPT ![FreeSlot] =
                                [Started("hide", postId, postAuthorId, hiddenPostIds)
                                    EXCEPT !.was = wasHidden, !.status = "pending"]],
                           FreeSlot, "hide", {postId})
            /\ settled' = NoSettlement
    /\ UNCHANGED <<currentUserId, likedPostIds, prefsCurrent, srvVars>>
    /\ notified' = (IF hiddenPostIds' # hiddenPostIds THEN TRUE ELSE notified)
    /\ Rerender
    /\ UNCHANGED appVars

\* The server runs mutation hidePost for the call of slot i.
RemoteHidePost(i) ==
    /\ invs[i].kind = "hide"
    /\ invs[i].status = "pending"
    /\ LET out == hidePostMutation(invs[i].postId, invs[i].userId) IN
       /\ srvHiddenPosts' = out.hiddenPosts
       /\ prefsCurrent' = IF out.hiddenPosts # srvHiddenPosts THEN FALSE
                          ELSE prefsCurrent
       /\ invs' = [invs EXCEPT ![i].status = "responded",
                               ![i].respError = out.error,
                               ![i].result = out.hidden]
    /\ settled' = NoSettlement
    /\ UNCHANGED <<storeVars, hook, srvPosts, srvLikeCount, srvPostLikes>>
    /\ UNCHANGED notified
    /\ UNCHANGED appVars

\* hidePost after its await resolved (lines 77-81).
HidePostResolve(i) ==
    /\ invs[i].kind = "hide"
    /\ invs[i].status = "responded"
    /\ invs[i].respError = NoError
    /\ hiddenPostIds' = IF ~invs[i].result
                        THEN unhidePostLocal(hiddenPostIds, invs[i].postId)
                        ELSE hiddenPostIds
    /\ settled' = Resolved(invs[i])
    /\ invs' = Interleave([invs EXCEPT ![i] = Idle], i, "hide", {invs[i].postId})
    /\ UNCHANGED <<currentUserId, likedPostIds, prefsCurrent, srvVars>>
    /\ notified' = (IF ~invs[i].result
                    THEN unhidePostNotifies(hiddenPostIds, invs[i].postId)
                    ELSE notified)
    /\ Rerender
    /\ UNCHANGED appVars

\* A variant of hidePost's catch branch that rethrows without unhiding.
HidePostReject_NoRollback(i) ==
    /\ invs[i].kind = "hide"
    /\ invs[i].status = "responded"
    /\ invs[i].respError # NoError
    /\ hiddenPostIds' = hiddenPostIds
    /\ settled' = Rejected(invs[i], invs[i].respError, TRUE)
    /\ invs' = Interleave([invs EXCEPT ![i] = Idle], i, "hide", {invs[i].postId})
    /\ UNCHANGED <<currentUserId, likedPostIds, prefsCurrent, srvVars, notified>>
    /\ Rerender
    /\ UNCHANGED appVars

\* A variant of the catch branch that rolls back and returns without rethrowing.
HidePostReject_Swallow(i) ==
    /\ invs[i].kind = "hide"
    /\ invs[i].status = "responded"
    /\ invs[i].respError # NoError
    /\ hiddenPostIds' = IF ~invs[i].was
                        THEN unhidePostLocal(hiddenPostIds, invs[i].postId)
                        ELSE hiddenPostIds
    /\ settled' = Resolved(invs[i])
    /\ invs' = Interleave([invs EXCEPT ![i] = Idle], i, "hide", {invs[i].postId})
    /\ UNCHANGED <<currentUserId, likedPostIds, prefsCurrent, srvVars>>
    /\ notified' = (IF ~invs[i].was
                    THEN unhidePostNotifies(hiddenPostIds, invs[i].postId)
                    ELSE notified)
    /\ Rerender
    /\ UNCHANGED appVars

\* A variant of the catch block that unhides the post whatever wasHidden.
HidePostReject_AlwaysUnhide(i) ==
    /\ invs[i].kind = "hide"
    /\ invs[i].status = "responded"
    /\ invs[i].respError # NoError
    /\ hiddenPostIds' = unhidePostLocal(hiddenPostIds, invs[i].postId)
    /\ settled' = Rejected(invs[i], invs[i].respError, TRUE)
    /\ invs' = Interleave([invs EXCEPT ![i] = Idle], i, "hide", {invs[i].postId})
    /\ UNCHANGED <<currentUserId, likedPostIds, prefsCurrent, srvVars>>
    /\ notified' = unhidePostNotifies(hiddenPostIds, invs[i].postId)
    /\ Rerender
    /\ UNCHANGED appVars

\* hidePost after its await rejected (lines 82-87).
HidePostReject(i) ==
    /\ invs[i].kind = "hide"
    /\ invs[i].status = "responded"
    /\ invs[i].respError # NoError
    /\ hiddenPostIds' = IF ~invs[i].was
                        THEN unhidePostLocal(hiddenPostIds, invs[i].postId)
                        ELSE hiddenPostIds
    /\ settled' = Rejected(invs[i], invs[i].respError, TRUE)
    /\ invs' = Interleave([invs EXCEPT ![i] = Idle], i, "hide", {invs[i].postId})
    /\ UNCHANGED <<currentUserId, likedPostIds, prefsCurrent, srvVars>>
    /\ notified' = (IF ~invs[i].was
                    THEN unhidePostNotifies(hiddenPostIds, invs[i].postId)
                    ELSE notified)
    /\ Rerender
    /\ UNCHANGED appVars

----------------------------------------------------------------------------
(* The screens, the transport, the hydrator, other clients *)

\* A screen's handleToggleLike: toggleLikeOnServer(postId).catch(alert).
TapLike(postId) ==
    /\ Busy < MaxTaps
    /\ ToggleLike(postId)

\* A screen's handleHideSelected: hidePostOnServer(selectedPost.id,
\* selectedPost.authorId).catch(alert), the post being the one the feed query
\* returned.
TapHide(postId) ==
    /\ Busy < MaxTaps
    /\ HidePost(postId, PostAuthor(postId))

\* The awaited mutation promise of slot i rejects without the server having
\* run the mutation: the request never arrived.
NetworkFailure(i) ==
    /\ invs[i].status = "pending"
    /\ invs' = [invs EXCEPT ![i].status = "responded",
                            ![i].respError = ErrNetwork]
    /\ settled' = NoSettlement
    /\ UNCHANGED <<storeVars, hook, prefsCurrent, srvVars>>
    /\ UNCHANGED notified
    /\ UNCHANGED appVars

\* PostPreferencesHydrator: useQuery(getUserPreferences) has a new result and
\* the effect replaces both arrays of the store.
PostPreferencesHydrator ==
    /\ currentUserId # NoUser
    /\ ~prefsCurrent
    /\ LET preferences == getUserPreferences(currentUserId) IN
       /\ likedPostIds' = setLikedPostIds(preferences.likedPostIds)
       /\ hiddenPostIds' = setHiddenPostIds(preferences.hiddenPostIds)
    /\ prefsCurrent' = TRUE
    /\ invs' = Interleave(Interleave(invs, 0, "like", Posts), 0, "hide", Posts)
    /\ settled' = NoSettlement
    /\ UNCHANGED <<currentUserId, srvVars>>
    /\ notified' = TRUE
    /\ Rerender
    /\ UNCHANGED appVars

\* A variant of setLikedPostIds that adds the identifiers to those held.
SetLikedPostIds_Merge(ids) ==
    /\ likedPostIds' = ArrayFromSet(likedPostIds \o ids)
    /\ invs' = Interleave(invs, 0, "like", Posts)
    /\ settled' = NoSettlement
    /\ UNCHANGED <<currentUserId, hiddenPostIds, prefsCurrent, srvVars>>
    /\ notified' = TRUE
    /\ Rerender
    /\ UNCHANGED appVars

\* The store's setLikedPostIds called with any array of identifiers.
SetLikedPostIds(ids) ==
    /\ likedPostIds' = setLikedPostIds(ids)
    /\ invs' = Interleave(invs, 0, "like", Posts)
    /\ settled' = NoSettlement
    /\ UNCHANGED <<currentUserId, hiddenPostIds, prefsCurrent, srvVars>>
    /\ notified' = TRUE
    /\ Rerender
    /\ UNCHANGED appVars

\* The store's setHiddenPostIds called with any array of identifiers.
SetHiddenPostIds(ids) ==
    /\ hiddenPostIds' = setHiddenPostIds(ids)
    /\ invs' = Interleave(invs, 0, "hide", Posts)
    /\ settled' = NoSettlement
    /\ UNCHANGED <<currentUserId, likedPostIds, prefsCurrent, srvVars>>
    /\ notified' = TRUE
    /\ Rerender
    /\ UNCHANGED appVars

\* The store's applyLikeState(postId, liked) called by any component.
ApplyLikeState(postId, liked) ==
    /\ likedPostIds' = applyLikeState(likedPostIds, postId, liked)
    /\ notified' = applyLikeStateNotifies(likedPostIds, postId, liked)
    /\ invs' = IF notified' THEN Interleave(invs, 0, "like", {postId}) ELSE invs
    /\ settled' = NoSettlement
    /\ UNCHANGED <<currentUserId, hiddenPostIds, prefsCurrent, srvVars>>
    /\ Rerender
    /\ UNCHANGED appVars

\* The store's toggleLike(postId) called by any component.
ToggleLikeLocal(postId) ==
    /\ likedPostIds' = toggleLikeLocal(likedPostIds, postId)
    /\ notified' = TRUE
    /\ invs' = Interleave(invs, 0, "like", {postId})
    /\ settled' = NoSettlement
    /\ UNCHANGED <<currentUserId, hiddenPostIds, prefsCurrent, srvVars>>
    /\ Rerender
    /\ UNCHANGED appVars

\* The store's hidePost(postId) called by any component.
HidePostLocal(postId) ==
    /\ hiddenPostIds' = hidePostLocal(hiddenPostIds, postId)
    /\ notified' = hidePostNotifies(hiddenPostIds, postId)
    /\ invs' = IF notified' THEN Interleave(invs, 0, "hide", {postId}) ELSE invs
    /\ settled' = NoSettlement
    /\ UNCHANGED <<currentUserId, likedPostIds, prefsCurrent, srvVars>>
    /\ Rerender
    /\ UNCHANGED appVars

\* The store's unhidePost(postId) called by any component.
UnhidePostLocal(postId) ==
    /\ hiddenPostIds' = unhidePostLocal(hiddenPostIds, postId)
    /\ notified' = unhidePostNotifies(hiddenPostIds, postId)
    /\ invs' = IF notified' THEN Interleave(invs, 0, "hide", {postId}) ELSE invs
    /\ settled' = NoSettlement
    /\ UNCHANGED <<currentUserId, likedPostIds, prefsCurrent, srvVars>>
    /\ Rerender
    /\ UNCHANGED appVars

\* setCurrentUserProfile(payload), its currentUserId:
\* payload.clerkId ?? state.currentUserId. The hydrator's query is skipped
\* while there is no viewer and subscribed anew when there is one again.
SetCurrentUserProfile(clerkId) ==
    /\ currentUserId' = IF clerkId = Undefined THEN currentUserId ELSE clerkId
    /\ prefsCurrent' = IF currentUserId' # currentUserId THEN FALSE ELSE prefsCurrent
    /\ settled' = NoSettlement
    /\ UNCHANGED <<likedPostIds, hiddenPostIds, invs, srvVars>>
    /\ notified' = TRUE
    /\ Rerender
    /\ UNCHANGED appVars

\* Mutation toggleLike called by another session of user u.
OtherSessionToggleLike(p, u) ==
    /\ LET out == toggleLikeMutation(p, u) IN
       /\ out.error = NoError
       /\ srvPostLikes' = out.postLikes
       /\ srvLikeCount' = [srvLikeCount EXCEPT ![p] = out.likeCount]
    /\ prefsCurrent' = IF u = currentUserId THEN FALSE ELSE prefsCurrent
    /\ settled' = NoSettlement
    /\ UNCHANGED <<storeVars, hook, invs, srvPosts, srvHiddenPosts>>
    /\ UNCHANGED notified
    /\ UNCHANGED appVars

\* Mutation hidePost called by another client as user u, for any post; a call
\* that throws writes nothing.
OtherSessionHidePost(p, u) ==
    /\ LET out == hidePostMutation(p, u) IN
       srvHiddenPosts' = out.hiddenPosts
    /\ prefsCurrent' = IF u = currentUserId /\ srvHiddenPosts' # srvHiddenPosts
                       THEN FALSE ELSE prefsCurrent
    /\ settled' = NoSettlement
    /\ UNCHANGED <<storeVars, hook, invs, notified, srvPosts, srvLikeCount, srvPostLikes>>
    /\ UNCHANGED appVars

\* Mutation unhidePost called by another client as user u.
OtherSessionUnhidePost(p, u) ==
    /\ LET out == unhidePostMutation(p, u) IN
       srvHiddenPosts' = out.hiddenPosts
    /\ prefsCurrent' = IF u = currentUserId /\ srvHiddenPosts' # srvHiddenPosts
                       THEN FALSE ELSE prefsCurrent
    /\ settled' = NoSettlement
    /\ UNCHANGED <<storeVars, hook, invs, notified, srvPosts, srvLikeCount, srvPostLikes>>
    /\ UNCHANGED appVars

\* Mutation deletePost({id, requesterId}): only the author's call gets past the
\* checks; it deletes the post's likes, its hidden entries and the post.
DeletePost(id, requesterId) ==
    /\ LET out == deletePostMutation(id, requesterId) IN
       /\ out.error = NoError
       /\ srvPostLikes' = out.postLikes
       /\ srvHiddenPosts' = out.hiddenPosts
       /\ srvPosts' = out.posts
    /\ srvLikeCount' = [srvLikeCount EXCEPT ![id] = 0]
    /\ prefsCurrent' = IF srvPostLikes' # srvPostLikes \/ srvHiddenPosts' # srvHiddenPosts
                       THEN FALSE ELSE prefsCurrent
    /\ settled' = NoSettlement
    /\ UNCHANGED <<storeVars, hook, invs>>
    /\ UNCHANGED notified
    /\ UNCHANGED appVars

----------------------------------------------------------------------------

\* The program: one hook, its store, the server, the hydrator, other sessions.
Next ==
    \/ \E p \in Posts : TapLike(p)
    \/ \E i \in Slots : RemoteToggleLike(i)
    \/ \E i \in Slots : ToggleLikeResolve(i)
    \/ \E i \in Slots : ToggleLikeReject(i)
    \/ \E p \in Posts : TapHide(p)
    \/ \E i \in Slots : RemoteHidePost(i)
    \/ \E i \in Slots : HidePostResolve(i)
    \/ \E i \in Slots : HidePostReject(i)
    \/ \E i \in Slots : NetworkFailure(i)
    \/ PostPreferencesHydrator
    \/ \E c \in {Undefined, NoUser, Viewer} : SetCurrentUserProfile(c)
    \/ \E p \in Posts : OtherSessionToggleLike(p, Viewer)
    \/ \E p \in Posts, u \in Users : DeletePost(p, u)

Spec == Init /\ [][Next]_vars

\* Overlapping toggleLike invocations and nothing else.
NextLike ==
    \/ \E p \in Posts : ToggleLike(p)
    \/ \E i \in Slots : RemoteToggleLike(i)
    \/ \E i \in Slots : ToggleLikeResolve(i)
    \/ \E i \in Slots : ToggleLikeReject(i)
    \/ \E i \in Slots : NetworkFailure(i)

SpecLike == Init /\ [][NextLike]_vars

\* The store written by the hook and by setLikedPostIds / setHiddenPostIds
\* called with any arrays.
NextStore ==
    \/ \E p \in Posts : TapLike(p)
    \/ \E i \in Slots : RemoteToggleLike(i)
    \/ \E i \in Slots : ToggleLikeResolve(i)
    \/ \E i \in Slots : ToggleLikeReject(i)
    \/ \E p \in Posts : TapHide(p)
    \/ \E i \in Slots : RemoteHidePost(i)
    \/ \E i \in Slots : HidePostResolve(i)
    \/ \E i \in Slots : HidePostReject(i)
    \/ \E i \in Slots : NetworkFailure(i)
    \/ \E ids \in IdArrays : SetLikedPostIds(ids)
    \/ \E ids \in IdArrays : SetHiddenPostIds(ids)

SpecStore == Init /\ [][NextStore]_vars

\* Every operation of the store on the two arrays called in any order with any
\* arguments, beside invocations of the hook that do not overlap.
NextOps ==
    \/ \E ids \in IdArrays : SetLikedPostIds(ids)
    \/ \E ids \in IdArrays : SetHiddenPostIds(ids)
    \/ \E p \in Posts, b \in BOOLEAN : ApplyLikeState(p, b)
    \/ \E p \in Posts : ToggleLikeLocal(p)
    \/ \E p \in Posts : HidePostLocal(p)
    \/ \E p \in Posts : UnhidePostLocal(p)
    \/ PostPreferencesHydrator
    \/ \E p \in Posts : Busy = 0 /\ ToggleLike(p)
    \/ \E i \in Slots : RemoteToggleLike(i)
    \/ \E i \in Slots : ToggleLikeResolve(i)
    \/ \E i \in Slots : ToggleLikeReject(i)
    \/ \E p \in Posts : Busy = 0 /\ HidePost(p, PostAuthor(p))
    \/ \E i \in Slots : RemoteHidePost(i)
    \/ \E i \in Slots : HidePostResolve(i)
    \/ \E i \in Slots : HidePostReject(i)
    \/ \E i \in Slots : NetworkFailure(i)

SpecOps == Init /\ [][NextOps]_vars

\* The posts the viewer can both like and hide: those of other authors.
OthersPosts == {p \in Posts : PostAuthor(p) # Viewer}

\* Overlapping invocations of toggleLike and hidePost on the posts of others,
\* every remote call settling in the end (the server answers or the transport
\* gives up) and every settled promise's continuation run by the event loop.
NextLive ==
    \/ \E p \in OthersPosts : ToggleLike(p)
    \/ \E i \in Slots : RemoteToggleLike(i)
    \/ \E i \in Slots : ToggleLikeResolve(i)
    \/ \E i \in Slots : ToggleLikeReject(i)
    \/ \E p \in OthersPosts : HidePost(p, PostAuthor(p))
    \/ \E i \in Slots : RemoteHidePost(i)
    \/ \E i \in Slots : HidePostResolve(i)
    \/ \E i \in Slots : HidePostReject(i)
    \/ \E i \in Slots : NetworkFailure(i)

SpecLive ==
    /\ Init
    /\ [][NextLive]_vars
    /\ \A i \in Slots :
           /\ WF_vars(RemoteToggleLike(i) \/ RemoteHidePost(i) \/ NetworkFailure(i))
           /\ WF_vars(ToggleLikeResolve(i) \/ ToggleLikeReject(i)
                          \/ HidePostResolve(i) \/ HidePostReject(i))

\* The server's mutations called by the clients of every user in any order
\* (each call one transaction), beside the viewer's hook called when it awaits
\* nothing, its hidePost handed any author.
NextServer ==
    \/ \E p \in Posts : Busy = 0 /\ ToggleLike(p)
    \/ \E i \in Slots : RemoteToggleLike(i)
    \/ \E i \in Slots : ToggleLikeResolve(i)
    \/ \E i \in Slots : ToggleLikeReject(i)
    \/ \E p \in Posts, a \in Users : Busy = 0 /\ HidePost(p, a)
    \/ \E i \in Slots : RemoteHidePost(i)
    \/ \E i \in Slots : HidePostResolve(i)
    \/ \E i \in Slots : HidePostReject(i)
    \/ \E p \in Posts, u \in Users : OtherSessionToggleLike(p, u)
    \/ \E p \in Posts, u \in Users : OtherSessionHidePost(p, u)
    \/ \E p \in Posts, u \in Users : OtherSessionUnhidePost(p, u)
    \/ \E p \in Posts, u \in Users : DeletePost(p, u)

SpecServer == Init /\ [][NextServer]_vars

\* Every way an invocation of the hook fails: the viewer signs out and in, the
\* hook, called when it awaits nothing, has its hidePost handed any author,
\* posts are deleted by their authors while a call is in flight, and the
\* transport gives up.
NextFail ==
    \/ \E p \in Posts : Busy = 0 /\ ToggleLike(p)
    \/ \E i \in Slots : RemoteToggleLike(i)
    \/ \E i \in Slots : ToggleLikeResolve(i)
    \/ \E i \in Slots : ToggleLikeReject(i)
    \/ \E p \in Posts, a \in Users : Busy = 0 /\ HidePost(p, a)
    \/ \E i \in Slots : RemoteHidePost(i)
    \/ \E i \in Slots : HidePostResolve(i)
    \/ \E i \in Slots : HidePostReject(i)
    \/ \E i \in Slots : NetworkFailure(i)
    \/ \E c \in {NoUser, Viewer} : SetCurrentUserProfile(c)
    \/ \E p \in Posts, u \in Users : DeletePost(p, u)

SpecFail == Init /\ [][NextFail]_vars

\* Overlapping toggleLike invocations none of whose requests arrives: every
\* remote call rejects.
NextRejected ==
    \/ \E p \in Posts : ToggleLike(p)
    \/ \E i \in Slots : NetworkFailure(i)
    \/ \E i \in Slots : ToggleLikeReject(i)

SpecRejected == Init /\ [][NextRejected]_vars

\* CurrentUserHydrator while it is mounted, its storeUser calls, the server's
\* users table and another device of the same account.
NextHydrator ==
    \/ CurrentUserHydratorEffect
    \/ ClerkUserChanges
    \/ CurrentUserQueryUpdates
    \/ \E k \in 1..MaxCalls : StoreUserMutation(k)
    \/ \E k \in 1..MaxCalls : StoreUserFails(k)
    \/ \E k \in 1..MaxCalls : StoreUserThen(k)
    \/ \E k \in 1..MaxCalls : StoreUserCatch(k)
    \/ \E k \in 1..MaxCalls : StoreUserUpdateSettles(k)
    \/ \E pl \in 0..MaxEdits : OtherDeviceStoresUser(pl)

SpecHydrator == Init /\ [][NextHydrator]_vars

\* The sign-up screen's password field.
NextPassword ==
    \/ \E c \in Chars : ChangePassword(c)
    \/ ClearPassword

SpecPassword == Init /\ [][NextPassword]_vars

\* Overlapping toggleLike invocations beside the hydrator and another session
\* of the viewer.
NextSync ==
    \/ \E p \in Posts : ToggleLike(p)
    \/ \E i \in Slots : RemoteToggleLike(i)
    \/ \E i \in Slots : ToggleLikeResolve(i)
    \/ \E i \in Slots : ToggleLikeReject(i)
    \/ \E i \in Slots : NetworkFailure(i)
    \/ PostPreferencesHydrator
    \/ \E p \in Posts : OtherSessionToggleLike(p, Viewer)

SpecSync == Init /\ [][NextSync]_vars

----------------------------------------------------------------------------
(* Properties *)

\* The promise settled in the last step was rejected after its remote call.
RemoteRejected(kind) ==
    /\ settled.status = "rejected"
    /\ settled.issued
    /\ settled.call.kind = kind

\* The record of the server liking post p for the viewer exists.
RemoteLiked(p) == ByPostUser(srvPostLikes, p, Viewer) # <<>>

NoDuplicates(ids) ==
    \A i, j \in 1..Len(ids) : ids[i] = ids[j] => i = j

\* C1: while a signed-in viewer's toggleLike(p) awaits its remote call and no
\* other operation has written p's like membership, p is in likedPostIds
\* exactly if it was not there when the invocation started: the flip is in
\* place before the remote call settles, for a like and for an unlike.
C1_SpeculativeFlip ==
    \A i \in Slots :
        (invs[i].kind = "like" /\ invs[i].interleaved # "same")
            => (Includes(likedPostIds, invs[i].postId) <=> ~invs[i].had)

\* A like whose response is back but not yet handled, with p liked meanwhile.
C1_Witness ==
    \E i \in Slots :
        /\ invs[i].kind = "like"
        /\ invs[i].status = "responded"
        /\ invs[i].interleaved # "same"
        /\ ~invs[i].had
        /\ Includes(likedPostIds, invs[i].postId)

\* C2: right after toggleLike(p) has handled a resolved remote call that
\* returned {liked: b}, p is in likedPostIds exactly if b, whatever the array
\* held before (the speculative value, a hydration, a second toggle of p).
C2_AuthoritativeOverwrite ==
    (settled.status = "resolved" /\ settled.call.kind = "like")
        => (Includes(likedPostIds, settled.call.postId) <=> settled.call.result)

\* A resolution whose answer contradicts the speculative flip, reached after
\* another write of p's membership.
C2_Witness ==
    /\ settled.status = "resolved"
    /\ settled.call.kind = "like"
    /\ settled.call.interleaved = "same"
    /\ settled.call.result = settled.call.was
    /\ Includes(likedPostIds, settled.call.postId) = settled.call.result

\* C3: a toggleLike(p) that ran alone, on a p that was not liked, and whose
\* remote call rejected leaves likedPostIds equal to the array it found: the
\* same identifiers in the same order, p not among them.
C3_RollbackExact ==
    (RemoteRejected("like") /\ settled.call.interleaved = "none" /\ ~settled.call.had)
        => /\ likedPostIds = settled.call.before
           /\ ~Includes(likedPostIds, settled.call.postId)

\* Such a rejection with other identifiers in the array.
C3_Witness ==
    /\ RemoteRejected("like")
    /\ settled.call.interleaved = "none"
    /\ ~settled.call.had
    /\ Len(settled.call.before) >= 1
    /\ likedPostIds = settled.call.before

\* C4: a toggleLike(p) that runs alone on a liked p has p not liked while its
\* remote call is awaited; when the call rejects, p is liked again and the
\* caller gets the rejection with the call's error.
C4_UnlikeRollback ==
    /\ \A i \in Slots :
           (invs[i].kind = "like" /\ invs[i].had /\ invs[i].interleaved = "none")
               => ~Includes(likedPostIds, invs[i].postId)
    /\ (RemoteRejected("like") /\ settled.call.interleaved = "none" /\ settled.call.had)
           => /\ Includes(likedPostIds, settled.call.postId)
              /\ settled.thrown # NoError
              /\ settled.thrown = settled.call.respError

\* A rejected unlike, p liked again.
C4_Witness ==
    /\ RemoteRejected("like")
    /\ settled.call.interleaved = "none"
    /\ settled.call.had
    /\ Includes(likedPostIds, settled.call.postId)

\* C5: with no current viewer, toggleLike(p) rejects with the sign-in error
\* and leaves likedPostIds and every other field of the store as they were.
C5_UnauthenticatedLike ==
    [][ \A p \in Posts :
            (currentUserId = NoUser /\ ToggleLike(p))
                => /\ settled'.status = "rejected"
                   /\ settled'.thrown = ErrSignInLike
                   /\ settled'.call.kind = "like"
                   /\ settled'.call.postId = p
                   /\ UNCHANGED storeVars ]_vars

\* A like refused for want of a viewer, with likes in the store.
C5_Witness ==
    /\ currentUserId = NoUser
    /\ settled.status = "rejected"
    /\ settled.thrown = ErrSignInLike
    /\ settled.call.kind = "like"
    /\ likedPostIds # <<>>

\* C6: when the viewer is the author passed to hidePost(p, authorId), the
\* invocation rejects with the own-post error and hiddenPostIds is unchanged.
C6_SelfHideForbidden ==
    [][ \A p \in Posts, a \in Users :
            (a = currentUserId /\ HidePost(p, a))
                => /\ settled'.status = "rejected"
                   /\ settled'.thrown = ErrSelfHide
                   /\ settled'.call.kind = "hide"
                   /\ settled'.call.postId = p
                   /\ hiddenPostIds' = hiddenPostIds ]_vars

\* A hide of the viewer's own post refused, with hidden posts in the store.
C6_Witness ==
    /\ settled.status = "rejected"
    /\ ~settled.issued
    /\ settled.thrown = ErrSelfHide
    /\ settled.call.authorId = currentUserId
    /\ hiddenPostIds # <<>>

\* C7: an invocation whose precondition fails (no viewer, for toggleLike and
\* hidePost; viewer = author, for hidePost) writes nothing speculative and
\* issues no remote call: the arrays, the calls in flight and the server stay
\* as they were, and no slot holds a call it did not hold before.
C7_NoSpeculationOnPreconditionFailure ==
    [][ (\E p \in Posts :
            \/ currentUserId = NoUser /\ ToggleLike(p)
            \/ \E a \in Users : currentUserId \in {NoUser, a} /\ HidePost(p, a))
                => /\ ~settled'.issued
                   /\ \A i \in Slots : invs'[i] # Idle => invs[i] # Idle
                   /\ UNCHANGED <<likedPostIds, hiddenPostIds, invs, srvVars>> ]_vars

\* A hide refused for want of a viewer: nothing in flight, nothing hidden.
C7_Witness ==
    /\ settled.status = "rejected"
    /\ ~settled.issued
    /\ settled.thrown = ErrSignInHide
    /\ \A i \in Slots : invs[i] = Idle
    /\ ~Includes(hiddenPostIds, settled.call.postId)

\* C8: when the remote call of an invocation rejects with error e, the step
\* that handles it rolls the speculative write back (toggleLike: membership as
\* in wasLiked; hidePost: p unhidden unless wasHidden) and rejects to the
\* caller with that same e; it never resolves.
C8_RollbackThenRethrow ==
    [][ \A i \in Slots :
            (/\ invs[i].status = "responded"
             /\ invs[i].respError # NoError
             /\ invs'[i].status # "responded")
                => /\ settled'.status = "rejected"
                   /\ settled'.thrown = invs[i].respError
                   /\ settled'.call = invs[i]
                   /\ invs[i].kind = "like"
                          => (Includes(likedPostIds', invs[i].postId) <=> invs[i].was)
                   /\ (invs[i].kind = "hide" /\ ~invs[i].was)
                          => ~Includes(hiddenPostIds', invs[i].postId) ]_vars

\* The server refused a hide of a deleted post: rolled back and rethrown.
C8_Witness ==
    /\ RemoteRejected("hide")
    /\ settled.thrown = ErrNotFound
    /\ ~settled.call.was
    /\ ~Includes(hiddenPostIds, settled.call.postId)

\* C9: starting from a store that agrees with the server, after any sequence
\* of toggleLike invocations, overlapping or not, executed and settled in any
\* order, succeeding or failing, once every remote call has settled p is in
\* likedPostIds exactly if the server holds the viewer's like of p.
C9_EventualCorrectness ==
    (\A i \in Slots : invs[i] = Idle)
        => \A p \in Posts : Includes(likedPostIds, p) <=> RemoteLiked(p)

C11_ApplyIdempotentSilent ==
    [][ \A p \in Posts :
            /\ \A b \in BOOLEAN :
                   ApplyLikeState(p, b)
                       => /\ applyLikeState(likedPostIds', p, b) = likedPostIds'
                          /\ ~applyLikeStateNotifies(likedPostIds', p, b)
            /\ \A b \in BOOLEAN :
                   (ApplyLikeState(p, b) /\ Includes(likedPostIds, p) = b)
                       => (UNCHANGED storeVars /\ ~notified')
            /\ (HidePostLocal(p) /\ Includes(hiddenPostIds, p))
                   => (UNCHANGED storeVars /\ ~notified')
            /\ (UnhidePostLocal(p) /\ ~Includes(hiddenPostIds, p))
                   => (UNCHANGED storeVars /\ ~notified') ]_vars

\* Both arrays hold identifiers, nothing is in flight or settling, and the last
\* store operation called no listener: an apply operation that changed nothing.
C11_Witness ==
    /\ ~notified
    /\ likedPostIds # <<>>
    /\ hiddenPostIds # <<>>
    /\ settled = NoSettlement
    /\ \A i \in Slots : invs[i] = Idle

\* The identifiers of array ids are exactly those of array given, each once.
ExactlyDistinct(ids, given) ==
    /\ \A p \in Posts : Includes(ids, p) <=> Includes(given, p)
    /\ NoDuplicates(ids)

\* C12: hydration is a full replace: after setLikedPostIds(ids) likedPostIds
\* holds exactly the distinct identifiers of ids, each once, and nothing it held
\* before, a speculative entry of an invocation in flight included; the same for
\* setHiddenPostIds and hiddenPostIds, and for PostPreferencesHydrator with the
\* arrays the server's getUserPreferences returned.
C12_HydrationReplaces ==
    [][ /\ \A ids \in IdArrays :
               /\ SetLikedPostIds(ids) => ExactlyDistinct(likedPostIds', ids)
               /\ SetHiddenPostIds(ids) => ExactlyDistinct(hiddenPostIds', ids)
        /\ PostPreferencesHydrator
               => /\ ExactlyDistinct(likedPostIds',
                                     getUserPreferences(currentUserId).likedPostIds)
                  /\ ExactlyDistinct(hiddenPostIds',
                                     getUserPreferences(currentUserId).hiddenPostIds) ]_vars

\* A like in flight whose speculative entry is gone while another identifier is
\* liked, or a hide in that case with another identifier hidden.
C12_Witness ==
    \E i \in Slots :
        /\ invs[i].status \in {"pending", "responded"}
        /\ ~invs[i].had
        /\ invs[i].interleaved = "same"
        /\ notified
        /\ IF invs[i].kind = "like"
           THEN ~Includes(likedPostIds, invs[i].postId) /\ likedPostIds # <<>>
           ELSE ~Includes(hiddenPostIds, invs[i].postId) /\ hiddenPostIds # <<>>

C15_HideAuthoritative ==
    (settled.status = "resolved" /\ settled.call.kind = "hide")
        => (Includes(hiddenPostIds, settled.call.postId) <=> settled.call.result)

\* The invocation of record r is the one of record q, its call and response
\* apart.
SameInvocation(r, q) ==
    /\ r.kind = q.kind
    /\ r.postId = q.postId
    /\ r.userId = q.userId
    /\ r.was = q.was

\* C16: no cancellation and no stuck pending state. An invocation that passed
\* its checks keeps its one remote call until the call has an outcome, whatever
\* starts meanwhile; the outcome stays as it came until the invocation handles
\* it, in one step that settles the caller's promise (resolved on success,
\* rejected on failure) and frees the slot; and, every remote call settling in
\* the end, every invocation in flight is handled in the end.
C16_NoCancellationNoStuck ==
    /\ [][ \A i \in Slots :
               /\ invs[i].status = "pending"
                      => /\ invs'[i].status \in {"pending", "responded"}
                         /\ SameInvocation(invs'[i], invs[i])
               /\ invs[i].status = "responded"
                      => \/ /\ invs'[i].status = "responded"
                            /\ SameInvocation(invs'[i], invs[i])
                            /\ invs'[i].respError = invs[i].respError
                            /\ invs'[i].result = invs[i].result
                         \/ /\ invs'[i] = Idle
                            /\ settled'.call = invs[i]
                            /\ settled'.issued
                            /\ settled'.status = IF invs[i].respError = NoError
                                                 THEN "resolved" ELSE "rejected" ]_vars
    /\ \A i \in Slots : (invs[i] # Idle) ~> (invs[i] = Idle)

\* An invocation has just been handled while another one for the same post,
\* started during its flight, still awaits its call.
C16_Witness ==
    /\ settled.issued
    /\ settled.call.interleaved = "same"
    /\ \E i \in Slots :
           /\ invs[i].status = "pending"
           /\ invs[i].kind = settled.call.kind
           /\ invs[i].postId = settled.call.postId

\* C17: every toggleLike invocation's rollback target wasLiked is the post's
\* membership in likedPostIds when that invocation started; of two overlapping
\* invocations on a post, the second's snapshot is the first's speculative
\* flip.
C17_SnapshotIsCurrent ==
    \A i \in Slots :
        invs[i].kind = "like" => invs[i].was = invs[i].had

\* Two invocations on a post not liked at first await their calls: the first
\* with wasLiked false, the second with wasLiked true.
C17_Witness ==
    \E i, j \in Slots :
        /\ i # j
        /\ invs[i].kind = "like" /\ invs[j].kind = "like"
        /\ invs[i].postId = invs[j].postId
        /\ invs[i].status = "pending" /\ invs[j].status = "pending"
        /\ ~invs[i].was /\ invs[i].interleaved = "same"
        /\ invs[j].was /\ invs[j].had /\ invs[j].interleaved = "none"

\* A step in which mutation toggleLike ran for (p, u) on an existing post and
\* returned {liked, likeCount} toggled the record: liked iff there was no
\* record, a record afterwards iff liked, likeCount the number of the post's
\* records afterwards and the post's stored likeCount.
ToggledLike(p, u, liked, likeCount) ==
    /\ liked <=> ByPostUser(srvPostLikes, p, u) = <<>>
    /\ liked <=> ByPostUser(srvPostLikes', p, u) # <<>>
    /\ likeCount = Len(ByPost(srvPostLikes', p))
    /\ srvLikeCount'[p] = likeCount

\* C18: mutation toggleLike(post, user) on an existing post toggles the like
\* record: it returns liked = true iff no record of (post, user) existed,
\* afterwards a record of (post, user) exists iff liked, and the likeCount
\* returned, which is also stored on the post, is the number of the post's like
\* records after the toggle. Checked on the calls of other clients and on the
\* calls of the viewer's hook, by the response the hook received.
C18_RemoteToggleLike ==
    [][ /\ \A p \in Posts, u \in Users :
               (OtherSessionToggleLike(p, u) /\ p \in srvPosts)
                   => ToggledLike(p, u, toggleLikeMutation(p, u).liked,
                                  toggleLikeMutation(p, u).likeCount)
        /\ \A i \in Slots :
               (RemoteToggleLike(i) /\ invs[i].postId \in srvPosts)
                   => /\ invs'[i].respError = NoError
                      /\ ToggledLike(invs[i].postId, invs[i].userId,
                                     invs'[i].result, invs'[i].likeCount) ]_vars

\* The viewer's like of a post another user likes came back as liked with
\* likeCount 2, and the post stores 2.
C18_Witness ==
    \E i \in Slots :
        /\ invs[i].kind = "like"
        /\ invs[i].status = "responded"
        /\ invs[i].result
        /\ invs[i].likeCount = Cardinality(Users)
        /\ srvLikeCount[invs[i].postId] = Cardinality(Users)
        /\ Len(ByPost(srvPostLikes, invs[i].postId)) = Cardinality(Users)

\* C19: mutation hidePost is idempotent: under any sequence of hidePost and
\* unhidePost calls table hiddenPosts holds at most one record per (post,
\* user), and hidePost of a post the user has hidden returns {hidden: true} and
\* leaves the table as it is.
C19_RemoteHideIdempotent ==
    /\ [](\A p \in Posts, u \in Users : Len(ByPostUser(srvHiddenPosts, p, u)) <= 1)
    /\ [][ /\ \A p \in Posts, u \in Users :
                  (OtherSessionHidePost(p, u) /\ ByPostUser(srvHiddenPosts, p, u) # <<>>)
                      => /\ hidePostMutation(p, u).error = NoError
                         /\ hidePostMutation(p, u).hidden
                         /\ UNCHANGED srvHiddenPosts
           /\ \A i \in Slots :
                  (/\ RemoteHidePost(i)
                   /\ ByPostUser(srvHiddenPosts, invs[i].postId, invs[i].userId) # <<>>)
                      => /\ invs'[i].respError = NoError
                         /\ invs'[i].result
                         /\ UNCHANGED srvHiddenPosts ]_vars

\* The viewer's hide of a post hidden in the store came back {hidden: true} and
\* the table holds the one record.
C19_Witness ==
    \E i \in Slots :
        /\ invs[i].kind = "hide"
        /\ invs[i].status = "responded"
        /\ invs[i].had
        /\ invs[i].respError = NoError
        /\ invs[i].result
        /\ Len(ByPostUser(srvHiddenPosts, invs[i].postId, invs[i].userId)) = 1
        /\ Len(srvHiddenPosts) = Cardinality(Posts)

\* C20: the server enforces the self-hide ban itself: in every state no record
\* of hiddenPosts has the userId of the author of its post, and a hidePost call
\* by the author of an existing post throws the own-post error and writes
\* nothing.
C20_RemoteSelfHideBan ==
    /\ [](\A k \in 1..Len(srvHiddenPosts) :
              srvHiddenPosts[k].userId # PostAuthor(srvHiddenPosts[k].postId))
    /\ [][ \A p \in Posts, u \in Users :
               (OtherSessionHidePost(p, u) /\ p \in srvPosts /\ PostAuthor(p) = u)
                   => /\ hidePostMutation(p, u).error = ErrSelfHide
                      /\ UNCHANGED srvVars ]_vars

\* A hide of the viewer's own post, sent because the hook was handed another
\* author, came back refused by the server, which holds no such record.
C20_Witness ==
    \E i \in Slots :
        /\ invs[i].kind = "hide"
        /\ invs[i].status = "responded"
        /\ invs[i].userId = PostAuthor(invs[i].postId)
        /\ invs[i].respError = ErrSelfHide
        /\ ByPostUser(srvHiddenPosts, invs[i].postId, invs[i].userId) = <<>>
        /\ srvHiddenPosts # <<>>

\* The failure kind a caller reads off an error value, by its message.
ErrorKind(e) ==
    IF e \in {ErrSignInLike, ErrSignInHide} THEN "Unauthenticated"
    ELSE IF e = ErrNotFound THEN "NotFound"
    ELSE IF e = ErrSelfHide THEN "SelfActionForbidden"
    ELSE IF e = ErrNetwork THEN "NetworkError"
    ELSE "none"

C22_DeletedSubject ==
    [][ \A i \in Slots :
            /\ ((RemoteToggleLike(i) \/ RemoteHidePost(i))
                     /\ invs[i].postId \notin srvPosts)
                   => /\ invs'[i].respError = ErrNotFound
                      /\ UNCHANGED srvVars
            /\ (ToggleLikeReject(i) /\ invs[i].respError = ErrNotFound)
                   => /\ settled'.status = "rejected"
                      /\ settled'.thrown = ErrNotFound
                      /\ Includes(likedPostIds', invs[i].postId) <=> invs[i].was
                      /\ invs[i].interleaved # "same"
                             => (Includes(likedPostIds', invs[i].postId) <=> invs[i].had)
            /\ (HidePostReject(i) /\ invs[i].respError = ErrNotFound)
                   => /\ settled'.status = "rejected"
                      /\ settled'.thrown = ErrNotFound
                      /\ ~invs[i].was => ~Includes(hiddenPostIds', invs[i].postId)
                      /\ invs[i].interleaved # "same"
                             => (Includes(hiddenPostIds', invs[i].postId) <=> invs[i].had) ]_vars

\* A like of a post deleted while the call was in flight: refused as missing,
\* rolled back, and the server holds no like of the post.
C22_Witness ==
    /\ RemoteRejected("like")
    /\ settled.thrown = ErrNotFound
    /\ ~settled.call.had
    /\ settled.call.postId \notin srvPosts
    /\ ~Includes(likedPostIds, settled.call.postId)
    /\ ByPost(srvPostLikes, settled.call.postId) = <<>>

\* The membership of every post other than p is the same in ids and in next.
SameElsewhere(ids, next, p) ==
    \A q \in Posts \ {p} : Includes(next, q) <=> Includes(ids, q)

\* C23: an invocation toggleLike(p) or hidePost(p), in its speculative step
\* and in the step that handles the resolved or the rejected remote call, never
\* changes the membership of another post q # p in likedPostIds or in
\* hiddenPostIds; toggleLike never changes hiddenPostIds and hidePost never
\* changes likedPostIds.
C23_Frame ==
    [][ /\ \A p \in Posts :
               ToggleLike(p)
                   => /\ SameElsewhere(likedPostIds, likedPostIds', p)
                      /\ hiddenPostIds' = hiddenPostIds
        /\ \A p \in Posts, a \in Users :
               HidePost(p, a)
                   => /\ SameElsewhere(hiddenPostIds, hiddenPostIds', p)
                      /\ likedPostIds' = likedPostIds
        /\ \A i \in Slots :
               /\ (ToggleLikeResolve(i) \/ ToggleLikeReject(i))
                      => /\ SameElsewhere(likedPostIds, likedPostIds', invs[i].postId)
                         /\ hiddenPostIds' = hiddenPostIds
               /\ (HidePostResolve(i) \/ HidePostReject(i))
                      => /\ SameElsewhere(hiddenPostIds, hiddenPostIds', invs[i].postId)
                         /\ likedPostIds' = likedPostIds ]_vars

\* A like rolled back, its post removed from an array in which another post,
\* liked while the call was in flight, stays, beside a hidden post.
C23_Witness ==
    /\ RemoteRejected("like")
    /\ ~settled.call.was
    /\ settled.call.interleaved = "other"
    /\ ~Includes(likedPostIds, settled.call.postId)
    /\ \E q \in Posts \ {settled.call.postId} : Includes(likedPostIds, q)
    /\ hiddenPostIds # <<>>

\* The number of character classes (uppercase, lowercase, digit, special)
\* present in a password.
ClassesPresent(pwd) ==
    Cardinality({class \in {UpperCase, LowerCase, Digits, SpecialChars} :
                    \E i \in 1..Len(pwd) : pwd[i] \in class})

\* C24: getPasswordStrength classifies every password by its length and the
\* number c of character classes present: shorter than 8 characters is weak
\* with the message asking for 8 characters; otherwise strong iff c >= 3 and
\* the length is at least 10, else medium iff c >= 2, else weak with the
\* weak-password message.
C24_PasswordStrength ==
    LET n == Len(password)
        c == ClassesPresent(password)
        r == passwordStrength
    IN /\ n < 8 => r = [strength |-> "weak", message |-> MsgTooShort]
       /\ n >= 8 =>
            /\ r.strength = "strong" <=> (c >= 3 /\ n >= 10)
            /\ r.strength = "medium" <=> (~(c >= 3 /\ n >= 10) /\ c >= 2)
            /\ r.strength = "weak" <=> (~(c >= 3 /\ n >= 10) /\ c < 2)
            /\ r.strength = "weak" => r.message = MsgWeak
            /\ r.strength \in {"weak", "medium", "strong"}

\* Nine characters of three classes: still medium, one short of strong.
C24_Witness ==
    /\ Len(password) = 9
    /\ ClassesPresent(password) = 3
    /\ passwordStrength.strength = "medium"

\* C25: when toggleLike invocations on a post overlap and every remote call
\* rejects, in whatever order, then after the last rollback the post's like
\* membership is the one before the first of them started. Where every remote
\* call rejects and no post is liked at the start, this says that a post with
\* no invocation in flight is not liked.
C25_AllRejectedRestores ==
    \A p \in Posts :
        (\A i \in Slots : invs[i].kind = "like" => invs[i].postId # p)
            => ~Includes(likedPostIds, p)

\* No toggleLike invocation on post p awaits its remote call.
NoLikeInFlight(p) ==
    \A i \in Slots : invs[i].kind = "like" => invs[i].postId # p

\* C26: last settlement wins. When the last of the overlapping toggleLike
\* invocations on a post has settled, no hydration having run, the post's like
\* membership is the value that invocation applied: the liked of its response
\* if its remote call succeeded, its own wasLiked if the call failed, in
\* whatever order the invocations were started.
C26_LastSettlementWins ==
    (/\ settled.status \in {"resolved", "rejected"}
     /\ settled.issued
     /\ settled.call.kind = "like"
     /\ settled.call.interleaved = "same"
     /\ NoLikeInFlight(settled.call.postId))
        => (Includes(likedPostIds, settled.call.postId)
                <=> IF settled.status = "resolved" THEN settled.call.result
                    ELSE settled.call.was)

\* The last of several overlapping invocations failed and put the post back to
\* liked, its own snapshot, although the server holds no like of the post.
C26_Witness ==
    /\ RemoteRejected("like")
    /\ settled.call.interleaved = "same"
    /\ settled.call.was
    /\ \A i \in Slots : invs[i] = Idle
    /\ Includes(likedPostIds, settled.call.postId)
    /\ ~RemoteLiked(settled.call.postId)

C28_OneLikePerPair ==
    \A p \in Posts, u \in Users : Len(ByPostUser(srvPostLikes, p, u)) <= 1

\* The viewer's second toggle of a post found the one record and deleted it,
\* the like of the other user stays, and the other post has been deleted.
C28_Witness ==
    \E i \in Slots :
        /\ invs[i].kind = "like"
        /\ invs[i].status = "responded"
        /\ invs[i].respError = NoError
        /\ ~invs[i].result
        /\ ByPostUser(srvPostLikes, invs[i].postId, invs[i].userId) = <<>>
        /\ Len(ByPost(srvPostLikes, invs[i].postId)) = 1
        /\ srvPosts = {invs[i].postId}

\* C29: referential integrity of the interactions. deletePost succeeds only
\* for the post's author and deletes the post together with every postLikes
\* and hiddenPosts record of it, so in every state of the server each record
\* of the two tables references an existing post; a deletePost by anyone else
\* throws and changes nothing.
C29_ReferentialIntegrity ==
    /\ [](/\ \A k \in 1..Len(srvPostLikes) : srvPostLikes[k].postId \in srvPosts
          /\ \A k \in 1..Len(srvHiddenPosts) : srvHiddenPosts[k].postId \in srvPosts
          /\ \A p \in srvPosts : \A u \in Users \ {PostAuthor(p)} :
                 LET out == deletePostMutation(p, u) IN
                 /\ out.error = ErrNotOwner
                 /\ out.posts = srvPosts
                 /\ out.postLikes = srvPostLikes
                 /\ out.hiddenPosts = srvHiddenPosts)
    /\ [][ \A p \in Posts, u \in Users :
               DeletePost(p, u)
                   => /\ u = PostAuthor(p)
                      /\ srvPosts' = srvPosts \ {p}
                      /\ ByPost(srvPostLikes', p) = <<>>
                      /\ ByPost(srvHiddenPosts', p) = <<>>
                      /\ \A q \in Posts \ {p} :
                             /\ ByPost(srvPostLikes', q) = ByPost(srvPostLikes, q)
                             /\ ByPost(srvHiddenPosts', q) = ByPost(srvHiddenPosts, q) ]_vars

\* The server hid a post for the viewer, and the post has since been deleted
\* with that entry, while records of the other post remain.
C29_Witness ==
    \E i \in Slots :
        /\ invs[i].kind = "hide"
        /\ invs[i].status = "responded"
        /\ invs[i].respError = NoError
        /\ invs[i].result
        /\ invs[i].postId \notin srvPosts
        /\ ByPost(srvHiddenPosts, invs[i].postId) = <<>>
        /\ srvPostLikes # <<>>
        /\ srvHiddenPosts # <<>>

\* C30: CurrentUserHydrator never has two profile-create requests in flight.
\* At most one storeUser call issued because the query returned null awaits
\* its settlement; a run of the effect with the query still null while that
\* call is pending issues no call; and hasRequestedCreate.current goes back to
\* false only in the catch-callback of a failed create or in a run of the
\* effect that has the user document.
C30_SingleCreateInFlight ==
    /\ [](Len(CreatesInFlight) <= 1)
    /\ [][ /\ (CurrentUserHydratorEffect /\ currentUser = NullDoc
                    /\ CreatesInFlight # <<>>)
               => /\ storeUserCalls' = storeUserCalls
                  /\ hasRequestedCreate'
           /\ (hasRequestedCreate /\ ~hasRequestedCreate')
               => \/ \E k \in 1..MaxCalls :
                         /\ StoreUserCatch(k)
                         /\ storeUserCalls[k].status = "rejected"
                  \/ CurrentUserHydratorEffect /\ currentUser.found = "doc" ]_vars

\* The create issued for the first payload is still pending, the Clerk user has
\* changed since, and the effect has run again on the null query without
\* issuing a second call.
C30_Witness ==
    /\ currentUser = NullDoc
    /\ payload > 0
    /\ ~effectPending
    /\ hasRequestedCreate
    /\ storeUserCalls = <<StoreUserCall("create", 0)>>

====
